---- MODULE Spec2Model ----
(***************************************************************************)
(* Master/slave workload distribution over MPI (Quadrature.h).             *)
(* Rank 0 runs masterCode, ranks 1..mpiSize-1 run slaveCode.  Messages are  *)
(* single ints with tag 0; the substrate is reliable and FIFO per           *)
(* (sender, receiver) pair.                                                 *)
(***************************************************************************)
EXTENDS Integers, Sequences, FiniteSets, TLC

\* ---- bounds of the model ----
MaxN      == 3   \* task counts explored: N in 0..MaxN
MaxSize   == 4   \* participants explored: mpiSize in 1..MaxSize
MaxSample == 1   \* generated input values explored: DistLo..MaxSample
MaxStray  == 1   \* stray result messages explored by SpecStray
MaxTrapN  == 2   \* trapezoidal: n in 0..MaxTrapN
MaxTrapX  == 2   \* trapezoidal: a, b in 0..MaxTrapX
MaxTrapY  == 1   \* trapezoidal: integrand values in 0..MaxTrapY

\* ---- program constants ----
DistLo   == 0
DistHi   == 10
errValue == -1

VARIABLES
    mpiSize,        \* number of participants (MPI_Comm_size)
    N,              \* input data size handed to masterCode
    pcM,            \* position of rank 0
    k,              \* start-up loop variable of masterCode
    input,          \* vector<int> input
    output,         \* vector<int> output
    inputIdx2proc,  \* vector<int> inputIdx2proc
    proc2inputIdx,  \* vector<int> proc2inputIdx
    counter,        \* next input index to hand out
    N_activeProc,   \* number of active processors
    errs,           \* indices reported by the serial/parallel comparison
    report,         \* "MPI size must be >= 2" was printed
    pcS,            \* position of every slave rank
    x,              \* slave local: last input value received
    file,           \* rank-<r>.dat of every rank
    toSlave,        \* messages in flight rank 0 -> rank p
    toMaster,       \* messages in flight rank p -> rank 0
    sendLog,        \* history: every MPI_Isend of rank 0, in order
    recvLog,        \* history: every MPI_Recv of rank 0, in order
    trap            \* one call of Quadrature::trapezoidal

vars == <<mpiSize, N, pcM, k, input, output, inputIdx2proc, proc2inputIdx,
          counter, N_activeProc, errs, report, pcS, x, file, toSlave,
          toMaster, sendLog, recvLog, trap>>

masterVars == <<pcM, k, input, output, inputIdx2proc, proc2inputIdx,
                counter, N_activeProc, errs, report>>

Slaves == 1..(mpiSize - 1)
Ranks  == 0..(mpiSize - 1)
Idx    == 0..(N - 1)

min(a, b) == IF a < b THEN a ELSE b

func_cheap(v) == v + 1

\* Sleep(100 * x) only takes time; the value is func_cheap's.
func_expensive(v) == func_cheap(v)

\* Values uniform_int_distribution(0, 10) can produce, cut at MaxSample.
Samples == DistLo..min(DistHi, MaxSample)

\* Every vector the generator can return for size n.
inputDataGenerator(n) == [0..(n - 1) -> Samples]

\* vector<int> v(n): n value-initialised elements.
ZeroVector(n) == [i \in 0..(n - 1) |-> 0]

\* Mutant: the start-up batch leaves out the last slave.
kmax_OffByOne == min(mpiSize - 2, N)

\* Start-up batch size.
kmax == min(mpiSize - 1, N)

\* Mutant: the counter is not advanced after a send.
Increment_Stuck(c) == c

\* Mutant: the counter skips an index.
Increment_Skip(c) == c + 2

\* counter++
Increment(c) == c + 1

\* Mutant: the active count is not decremented on a terminate send.
Decrement_None(c) == c

\* Mutant: a terminate send takes two off the active count.
Decrement_Double(c) == c - 2

\* N_activeProc--
Decrement(c) == c - 1

\* MPI_Isend of rank 0 to rank dst (a send to rank 0 is a message to itself).
IsendSlave(dst, v) ==
    IF dst \in DOMAIN toSlave
    THEN [toSlave EXCEPT ![dst] = Append(@, v)]
    ELSE toSlave

IsendSelf(dst, v, q) ==
    IF dst = 0
    THEN [q EXCEPT ![0] = Append(@, v)]
    ELSE q

\* No call of Quadrature::trapezoidal is under way.
TrapIdle == [pc |-> "idle"]

ProgInit ==
    /\ mpiSize \in 1..MaxSize
    /\ N \in 0..MaxN
    /\ pcM = "main"
    /\ k = 0
    /\ input = ZeroVector(0)
    /\ output = ZeroVector(0)
    /\ inputIdx2proc = ZeroVector(0)
    /\ proc2inputIdx = ZeroVector(0)
    /\ counter = 0
    /\ N_activeProc = 0
    /\ errs = {}
    /\ report = FALSE
    /\ pcS = [p \in Slaves |-> "main"]
    /\ x = [p \in Slaves |-> 0]
    /\ file = [p \in Ranks |-> <<>>]
    /\ toSlave = [p \in Slaves |-> <<>>]
    /\ toMaster = [p \in Ranks |-> <<>>]
    /\ sendLog = <<>>
    /\ recvLog = <<>>

Init == ProgInit /\ trap = TrapIdle

\* Mutant: the size check lets a run without slaves through.
SizeTooSmall_OffByOne == mpiSize < 1

\* The size check of main.
SizeTooSmall == mpiSize < 2

\* main on rank 0: the size check, then entry into masterCode up to the
\* start-up loop.
MainMaster ==
    /\ pcM = "main"
    /\ IF SizeTooSmall
       THEN /\ report' = TRUE
            /\ pcM' = "finished"
            /\ UNCHANGED <<k, input, output, inputIdx2proc, proc2inputIdx,
                           counter, N_activeProc>>
       ELSE /\ \E d \in inputDataGenerator(N) : input' = d
            /\ output' = ZeroVector(N)
            /\ inputIdx2proc' = ZeroVector(N)
            /\ proc2inputIdx' = ZeroVector(mpiSize)
            /\ counter' = 0
            /\ k' = 1
            /\ pcM' = "startup"
            /\ UNCHANGED <<report, N_activeProc>>
    /\ UNCHANGED <<trap, mpiSize, N, errs, pcS, x, file, toSlave, toMaster,
                   sendLog, recvLog>>

\* Mutant: the start-up batch is one short.
StartupCond_Short == counter < kmax - 1

\* The test of the start-up loop: is there an input value for rank k?
StartupCond == counter < kmax

MasterStartup ==
    /\ pcM = "startup"
    /\ k < mpiSize
    /\ IF StartupCond
       THEN /\ toSlave' = IsendSlave(k, input[counter])
            /\ sendLog' = Append(sendLog,
                   [proc |-> k, idx |-> counter, val |-> input[counter]])
            /\ inputIdx2proc' = [inputIdx2proc EXCEPT ![counter] = k]
            /\ proc2inputIdx' = [proc2inputIdx EXCEPT ![k] = counter]
            /\ counter' = Increment(counter)
       ELSE /\ toSlave' = IsendSlave(k, errValue)
            /\ sendLog' = Append(sendLog,
                   [proc |-> k, idx |-> -1, val |-> errValue])
            /\ proc2inputIdx' = [proc2inputIdx EXCEPT ![k] = -1]
            /\ UNCHANGED <<inputIdx2proc, counter>>
    /\ k' = k + 1
    /\ UNCHANGED <<trap, mpiSize, N, pcM, input, output, N_activeProc, errs, report,
                   pcS, x, file, toMaster, recvLog>>

\* Mutant: every slave counts as active, also those terminated at start-up.
InitialActive_AllSlaves == mpiSize - 1

\* Mutant: the active count starts at the number of tasks.
InitialActive_Tasks == N

\* The initial number of active processors.
InitialActive == counter

\* End of the start-up loop: int N_activeProc = counter.
MasterStartupDone ==
    /\ pcM = "startup"
    /\ ~(k < mpiSize)
    /\ N_activeProc' = InitialActive
    /\ pcM' = "loop"
    /\ UNCHANGED <<trap, mpiSize, N, k, input, output, inputIdx2proc, proc2inputIdx,
                   counter, errs, report, pcS, x, file, toSlave, toMaster,
                   sendLog, recvLog>>

\* Mutant: the loop stops while one processor is still active.
LoopCond_OffByOne == N_activeProc > 1

\* Mutant: the loop goes on when no processor is active.
LoopCond_Weak == N_activeProc >= 0

\* The while condition of the main loop.
LoopCond == N_activeProc > 0

\* What output[idx] = y can do: a store inside the vector, or, for an index
\* outside it, either the checked-iterator abort of a debug build or a store
\* to memory that is not part of the vector.
StoreOutcomes(idx) ==
    IF idx \in Idx THEN {"store"} ELSE {"abort", "stray"}

\* Mutant: the result is recorded at its arrival position.
RecordIdx_Arrival(procNr) == Len(recvLog)

\* Mutant: the result is recorded at the index handed out last.
RecordIdx_LastSent(procNr) == counter - 1

\* The index the result of procNr is recorded at.
RecordIdx(procNr) == proc2inputIdx[procNr]

\* Mutant: the next message goes to the ranks in turn, not to the sender.
Dest_RoundRobin(procNr) == (counter % (mpiSize - 1)) + 1

\* The destination of the message that answers a result of procNr.
Dest(procNr) == procNr

\* Mutant: the last input value is never handed out.
MoreData_OffByOne == counter < N - 1

\* Is there more data to hand out?
MoreData == counter < N

\* One iteration of the main loop: MPI_Recv from any source, record, then
\* send the next input value or the terminate value to the sender.
MasterRecv(procNr) ==
    /\ pcM = "loop"
    /\ LoopCond
    /\ toMaster[procNr] # <<>>
    /\ LET y   == Head(toMaster[procNr])
           idx == RecordIdx(procNr)
           q   == [toMaster EXCEPT ![procNr] = Tail(@)]
       IN \E oc \in StoreOutcomes(idx) :
            /\ recvLog' = Append(recvLog,
                   [proc |-> procNr, idx |-> idx, val |-> y])
            /\ IF oc = "abort"
               THEN /\ pcM' = "aborted"
                    /\ toMaster' = q
                    /\ UNCHANGED <<output, inputIdx2proc, proc2inputIdx,
                                   counter, N_activeProc, toSlave, sendLog>>
               ELSE /\ output' = IF oc = "store"
                                 THEN [output EXCEPT ![idx] = y]
                                 ELSE output
                    /\ pcM' = pcM
                    /\ IF MoreData
                       THEN /\ toSlave' = IsendSlave(Dest(procNr),
                                                   input[counter])
                            /\ toMaster' = IsendSelf(Dest(procNr),
                                                   input[counter], q)
                            /\ sendLog' = Append(sendLog,
                                   [proc |-> Dest(procNr), idx |-> counter,
                                    val |-> input[counter]])
                            /\ inputIdx2proc' =
                                   [inputIdx2proc EXCEPT ![counter] = procNr]
                            /\ proc2inputIdx' =
                                   [proc2inputIdx EXCEPT ![procNr] = counter]
                            /\ counter' = Increment(counter)
                            /\ UNCHANGED N_activeProc
                       ELSE /\ toSlave' = IsendSlave(Dest(procNr), errValue)
                            /\ toMaster' = IsendSelf(Dest(procNr), errValue, q)
                            /\ sendLog' = Append(sendLog,
                                   [proc |-> Dest(procNr), idx |-> -1,
                                    val |-> errValue])
                            /\ proc2inputIdx' =
                                   [proc2inputIdx EXCEPT ![procNr] = -1]
                            /\ N_activeProc' = Decrement(N_activeProc)
                            /\ UNCHANGED <<inputIdx2proc, counter>>
    /\ UNCHANGED <<trap, mpiSize, N, k, input, errs, report, pcS, x, file>>

\* The main loop's condition fails: leave the loop.
MasterLoopExit ==
    /\ pcM = "loop"
    /\ ~LoopCond
    /\ pcM' = "after"
    /\ UNCHANGED <<trap, mpiSize, N, k, input, output, inputIdx2proc, proc2inputIdx,
                   counter, N_activeProc, errs, report, pcS, x, file, toSlave,
                   toMaster, sendLog, recvLog>>

\* The indices the comparison of serial and parallel computation reports.
Mismatches == {i \in Idx : func_cheap(input[i]) - output[i] # 0}

\* rank-0.dat: one line "input[k], inputIdx2proc[k]" per index.
MasterFile == [i \in 1..N |-> <<input[i - 1], inputIdx2proc[i - 1]>>]

\* After the loop: write rank-0.dat, compare, return to main and finish.
MasterCheck ==
    /\ pcM = "after"
    /\ file' = [file EXCEPT ![0] = MasterFile]
    /\ errs' = Mismatches
    /\ pcM' = "finished"
    /\ UNCHANGED <<trap, mpiSize, N, k, input, output, inputIdx2proc, proc2inputIdx,
                   counter, N_activeProc, report, pcS, x, toSlave, toMaster,
                   sendLog, recvLog>>

\* main on rank p > 0: enter slaveCode.
MainSlave(p) ==
    /\ pcS[p] = "main"
    /\ pcS' = [pcS EXCEPT ![p] = "recv"]
    /\ UNCHANGED <<trap, mpiSize, N, masterVars, x, file, toSlave, toMaster,
                   sendLog, recvLog>>

\* Mutant: the input value 0 is taken for the terminate value.
IsTerminate_NonPositive(v) == v <= 0

\* Mutant: the terminate value -1 is taken for an input value.
IsTerminate_Strict(v) == v < -1

\* The slave's test of the value it received.
IsTerminate(v) == v < 0

\* MPI_Recv of slaveCode and the check of the input value.
SlaveRecv(p) ==
    /\ pcS[p] = "recv"
    /\ toSlave[p] # <<>>
    /\ LET v == Head(toSlave[p])
       IN /\ x' = [x EXCEPT ![p] = v]
          /\ pcS' = [pcS EXCEPT ![p] =
                        IF IsTerminate(v) THEN "finished" ELSE "compute"]
    /\ toSlave' = [toSlave EXCEPT ![p] = Tail(@)]
    /\ UNCHANGED <<trap, mpiSize, N, masterVars, file, toMaster, sendLog, recvLog>>

\* y = func_expensive(x), the log line, MPI_Send of y to rank 0.
SlaveCompute(p) ==
    /\ pcS[p] = "compute"
    /\ file' = [file EXCEPT ![p] = Append(@, <<x[p], p>>)]
    /\ toMaster' = [toMaster EXCEPT ![p] = Append(@, func_expensive(x[p]))]
    /\ pcS' = [pcS EXCEPT ![p] = "recv"]
    /\ UNCHANGED <<trap, mpiSize, N, masterVars, x, toSlave, sendLog, recvLog>>

Master ==
    \/ MainMaster
    \/ MasterStartup
    \/ MasterStartupDone
    \/ \E p \in Ranks : MasterRecv(p)
    \/ MasterLoopExit
    \/ MasterCheck

Slave(p) ==
    \/ MainSlave(p)
    \/ SlaveRecv(p)
    \/ SlaveCompute(p)

Next == Master \/ \E p \in Slaves : Slave(p)

Spec == Init /\ [][Next]_vars

\* Every rank is a running process and the substrate delivers: each enabled
\* step of a rank is eventually taken.
FairSpec ==
    /\ Spec
    /\ WF_vars(Master)
    /\ \A p \in 1..(MaxSize - 1) : WF_vars(p \in Slaves /\ Slave(p))

\* ---- a substrate that breaks its contract ----

\* Rank p has no outstanding task in the master's table: it is rank 0, which
\* is never assigned one, or its slot holds the terminated mark.
NoOutstanding(p) == p = 0 \/ proc2inputIdx[p] = -1

\* Results the master received from a rank without an outstanding task.
StrayReceived == {i \in DOMAIN recvLog : recvLog[i].idx \notin Idx
                                         \/ recvLog[i].proc = 0}

\* MPI_Recv takes a message of tag 0 from MPI_ANY_SOURCE, whoever sent it:
\* a message attributed to a rank without an outstanding task shows up.
StrayResult(p, v) ==
    /\ pcM = "loop"
    /\ NoOutstanding(p)
    /\ \A q \in Ranks : NoOutstanding(q) => toMaster[q] = <<>>
    /\ Cardinality(StrayReceived) < MaxStray
    /\ toMaster' = [toMaster EXCEPT ![p] = Append(@, v)]
    /\ UNCHANGED <<trap, mpiSize, N, masterVars, pcS, x, file, toSlave, sendLog,
                   recvLog>>

NextStray ==
    \/ Next
    \/ \E p \in Ranks : StrayResult(p, func_cheap(DistHi))

SpecStray == Init /\ [][NextStray]_vars

\* ---- properties ----

\* The master has left its main loop (the run had workers).
LoopExited == mpiSize >= 2 /\ pcM \in {"after", "finished"}

\* The sends of rank 0 that carry the input at index i.
SendsOf(i) == {j \in DOMAIN sendLog : sendLog[j].idx = i}

\* The receives of rank 0 recorded at index i.
RecvsOf(i) == {j \in DOMAIN recvLog : recvLog[j].idx = i}

\* Some result arrived before the result of a lower task index.
OutOfOrderArrival ==
    \E i, j \in DOMAIN recvLog : i < j /\ recvLog[i].idx > recvLog[j].idx

\* C1: over a whole run every task index in 0..N-1 is sent as a task
\* assignment exactly once, to exactly one worker: never twice at any point
\* of the run, always to a worker rank, always carrying input[index], and
\* once the main loop has exited no index is missing.
C1_Coverage ==
    /\ \A j \in DOMAIN sendLog :
          /\ sendLog[j].proc \in Slaves
          /\ sendLog[j].idx \in Idx \cup {-1}
          /\ sendLog[j].idx \in Idx => sendLog[j].val = input[sendLog[j].idx]
    /\ \A i \in Idx : Cardinality(SendsOf(i)) <= 1
    /\ LoopExited => \A i \in Idx : Cardinality(SendsOf(i)) = 1

C1_Witness ==
    /\ LoopExited
    /\ N = 3
    /\ mpiSize = 3
    /\ \E j \in DOMAIN sendLog : sendLog[j].idx = 2 /\ sendLog[j].proc = 2

\* C2: when the main loop has exited, output[i] holds the task function's
\* result for input[i] for every index i, whatever the order of arrival,
\* and the comparison against the serial computation reports no mismatch.
C2_OutputByIndex ==
    /\ LoopExited => \A i \in Idx : output[i] = func_cheap(input[i])
    /\ errs = {}

C2_Witness ==
    /\ pcM = "finished"
    /\ N = 3
    /\ OutOfOrderArrival
    /\ input[0] # input[1]
    /\ input[1] # input[2]

\* C3: with reliable FIFO delivery and every rank running, the main loop
\* of the master eventually exits, and at the moment it exits N_activeProc
\* is 0.
C3_Termination ==
    /\ <>(mpiSize >= 2 => pcM = "after")
    /\ [](pcM = "after" => N_activeProc = 0)

C3_Witness ==
    /\ pcM = "after"
    /\ N_activeProc = 0
    /\ mpiSize = 3
    /\ Len(recvLog) = 3

\* C4: under the same fairness every worker rank eventually receives the
\* terminate value and leaves its receive loop.
C4_AllWorkersTerminate ==
    <>(\A p \in Slaves : pcS[p] = "finished")

C4_Witness ==
    /\ mpiSize = 4
    /\ N = 2
    /\ \A p \in Slaves : pcS[p] = "finished"
    /\ Len(file[1]) = 1
    /\ file[3] = <<>>

\* A task assignment is in flight to p, p computes, or a result of p is in
\* flight.
Busy(p) ==
    \/ pcS[p] = "compute"
    \/ \E i \in DOMAIN toSlave[p] : ~IsTerminate(toSlave[p][i])
    \/ toMaster[p] # <<>>

\* C5: the protocol never deadlocks: whenever the master is in its main
\* loop with N_activeProc > 0, some worker computes or a task assignment or
\* a result is in flight; and the only state without an enabled step is the
\* one where rank 0 has finished and every worker has terminated.
C5_NoDeadlock ==
    /\ (pcM = "loop" /\ N_activeProc > 0) => \E p \in Slaves : Busy(p)
    /\ (~ENABLED Next) <=>
          (pcM = "finished" /\ \A p \in Slaves : pcS[p] = "finished")

C5_Witness ==
    /\ pcM = "loop"
    /\ N_activeProc = 1
    /\ counter = 3
    /\ mpiSize = 4
    /\ \E p \in Slaves : pcS[p] = "compute"
    /\ \A p \in Slaves : toMaster[p] = <<>>

\* The task indices and terminate marks rank 0 sent to rank p, in order.
RECURSIVE SentFrom(_, _)
SentFrom(p, j) ==
    IF j > Len(sendLog) THEN <<>>
    ELSE IF sendLog[j].proc = p
         THEN <<sendLog[j].idx>> \o SentFrom(p, j + 1)
         ELSE SentFrom(p, j + 1)

SentTo(p) == SentFrom(p, 1)

\* Tasks sent to p whose result rank 0 has not received yet.
Outstanding(p) ==
    Cardinality({j \in DOMAIN sendLog :
                    sendLog[j].proc = p /\ sendLog[j].idx \in Idx})
    - Cardinality({j \in DOMAIN recvLog : recvLog[j].proc = p})

\* Tasks on their way to p, being computed by p, or results on their way
\* back.
InFlight(p) ==
    Cardinality({i \in DOMAIN toSlave[p] : ~IsTerminate(toSlave[p][i])})
    + (IF pcS[p] = "compute" THEN 1 ELSE 0)
    + Len(toMaster[p])

\* C6: at every point of the run each worker has at most one outstanding
\* task: rank 0 has sent it at most one task more than it has received
\* results from it, and at most one task is on its way to it, computed by
\* it or on its way back as a result.
C6_OneOutstanding ==
    \A p \in Slaves :
        /\ Outstanding(p) \in {0, 1}
        /\ InFlight(p) <= 1

C6_Witness ==
    /\ mpiSize = 3
    /\ N = 3
    /\ counter = 3
    /\ Outstanding(1) = 1
    /\ Outstanding(2) = 1
    /\ Len(SentTo(2)) = 2

\* C7: when the main loop has exited, the result of every task index in
\* 0..N-1 has been received and recorded exactly once (N receives in all,
\* each carrying the result of the task it is recorded for), and no task
\* assignment or result is in flight or being computed; at no point is an
\* index recorded twice.
C7_AllResultsReceived ==
    /\ \A i \in Idx : Cardinality(RecvsOf(i)) <= 1
    /\ LoopExited =>
          /\ Len(recvLog) = N
          /\ \A i \in Idx : Cardinality(RecvsOf(i)) = 1
          /\ \A j \in DOMAIN recvLog :
                /\ recvLog[j].idx \in Idx
                /\ recvLog[j].val = func_expensive(input[recvLog[j].idx])
          /\ \A p \in Slaves : InFlight(p) = 0

C7_Witness ==
    /\ pcM = "after"
    /\ mpiSize = 3
    /\ N = 3
    /\ \E p \in Slaves : pcS[p] = "recv" /\ toSlave[p] # <<>>

\* C8: with more workers than tasks, the workers of rank 1..N each receive
\* exactly one task assignment (the input at index rank-1) followed by the
\* terminate value, and every worker of higher rank receives the terminate
\* value as its only message and never a task.
C8_ExcessWorkers ==
    mpiSize - 1 > N =>
      \A p \in Slaves :
        /\ p > N =>
              /\ file[p] = <<>>
              /\ InFlight(p) = 0
              /\ SentTo(p) \in {<<>>, <<-1>>}
        /\ p <= N =>
              /\ Len(file[p]) <= 1
              /\ SentTo(p) \in {<<>>, <<p - 1>>, <<p - 1, -1>>}
        /\ pcS[p] = "finished" =>
              /\ toSlave[p] = <<>>
              /\ SentTo(p) = IF p <= N THEN <<p - 1, -1>> ELSE <<-1>>
              /\ file[p] = IF p <= N THEN << <<input[p - 1], p>> >> ELSE <<>>

C8_Witness ==
    /\ mpiSize = 4
    /\ N = 2
    /\ pcM = "finished"
    /\ \A p \in Slaves : pcS[p] = "finished"

\* C9: with N = 0 every worker receives the terminate value as its only
\* message, N_activeProc is 0 after start-up, and rank 0 never performs or
\* waits in a receive for a result.
C9_ZeroTasks ==
    N = 0 =>
      /\ recvLog = <<>>
      /\ \A j \in DOMAIN sendLog : sendLog[j].idx = -1
      /\ \A p \in Slaves :
            /\ file[p] = <<>>
            /\ InFlight(p) = 0
            /\ Len(SentTo(p)) <= 1
            /\ pcS[p] = "finished" => SentTo(p) = <<-1>> /\ toSlave[p] = <<>>
      /\ pcM \in {"loop", "after", "finished"} /\ mpiSize >= 2 =>
            /\ N_activeProc = 0
            /\ ~LoopCond
            /\ \A p \in Slaves : SentTo(p) = <<-1>>

C9_Witness ==
    /\ N = 0
    /\ mpiSize = 4
    /\ pcM = "finished"
    /\ \A p \in Slaves : pcS[p] = "finished"

\* C10: a result attributed to a rank without an outstanding task (its slot
\* holds -1, or it was never assigned a task) makes rank 0 abort the run at
\* once: the value is not recorded in the output, no task and no terminate
\* value is sent to the sender, and the cursor, the slot table and the
\* active count stay as they are.
C10_AbortOnProtocolViolation ==
    [][(/\ Len(recvLog') = Len(recvLog) + 1
        /\ NoOutstanding(recvLog'[Len(recvLog')].proc))
       => (/\ pcM' = "aborted"
           /\ UNCHANGED <<output, toSlave, sendLog, counter, N_activeProc,
                          proc2inputIdx>>)]_vars

\* C11: with fewer than 2 participants the error is reported and nothing is
\* dispatched: rank 0 enters neither masterCode nor slaveCode (it goes from
\* main straight to its end, no input is generated, no table is built), no
\* task and no terminate value is sent, nothing is received, and rank 0 can
\* always take its step to the end; the error is reported in no other run.
C11_ConfigError ==
    /\ mpiSize < 2 =>
          /\ pcM \in {"main", "finished"}
          /\ pcM = "main" => ENABLED MainMaster
          /\ pcM = "finished" => report
          /\ sendLog = <<>>
          /\ recvLog = <<>>
          /\ \A p \in Ranks : toMaster[p] = <<>> /\ file[p] = <<>>
          /\ DOMAIN toSlave = {}
          /\ DOMAIN pcS = {}
          /\ input = ZeroVector(0)
          /\ proc2inputIdx = ZeroVector(0)
          /\ counter = 0
          /\ N_activeProc = 0
    /\ report => mpiSize < 2

C11_Witness ==
    /\ mpiSize = 1
    /\ N = 3
    /\ pcM = "finished"
    /\ report

\* This step sends a terminate value.
TermSentStep ==
    /\ Len(sendLog') = Len(sendLog) + 1
    /\ sendLog'[Len(sendLog')].idx = -1

\* The terminate values rank 0 sent to rank p.
TermsTo(p) == {j \in DOMAIN sendLog :
                 sendLog[j].proc = p /\ sendLog[j].idx = -1}

\* The terminate values rank 0 sent from its main loop (start-up sends one
\* message per slave first).
LoopTerms == {j \in DOMAIN sendLog :
                j > mpiSize - 1 /\ sendLog[j].idx = -1}

\* Rank 0 is past the start-up loop of masterCode.
PastStartup == mpiSize >= 2 /\ pcM \in {"loop", "after", "finished"}

\* C12 as claimed: N_activeProc goes down by one in exactly the steps that
\* send a terminate value, those of start-up included.
C12_DecrementOnEveryTerminate ==
    [][TermSentStep <=> N_activeProc' = N_activeProc - 1]_vars

\* C12 as amended: N_activeProc goes down by one in exactly the steps of the
\* main loop that send a terminate value, once for every worker that was
\* given a task at start-up; a terminate value sent during start-up goes to
\* a rank above min(W, N) and leaves the count alone; no worker is sent two
\* terminate values, and past start-up the count is min(W, N) less the
\* terminate values sent from the loop.
C12_DecrementPerActiveWorker ==
    /\ [][(TermSentStep /\ pcM = "loop")
            <=> N_activeProc' = N_activeProc - 1]_vars
    /\ [][(TermSentStep /\ pcM = "startup")
            => /\ N_activeProc' = N_activeProc
               /\ sendLog'[Len(sendLog')].proc > kmax]_vars
    /\ [](\A p \in Slaves : Cardinality(TermsTo(p)) <= 1)
    /\ [](PastStartup =>
            /\ N_activeProc = kmax - Cardinality(LoopTerms)
            /\ \A j \in LoopTerms : sendLog[j].proc <= kmax)
    /\ [](LoopExited => \A p \in Slaves : Cardinality(TermsTo(p)) = 1)

C12_Witness ==
    /\ mpiSize = 4
    /\ N = 2
    /\ pcM = "after"
    /\ Cardinality(LoopTerms) = 2
    /\ Cardinality(TermsTo(3)) = 1

\* The slaves whose slot does not hold the terminated mark.
ActiveSlots == {p \in Slaves : proc2inputIdx[p] # -1}

\* C13: from the end of start-up on, at every boundary of the main loop
\* N_activeProc is the number of slave ranks whose proc2inputIdx entry is
\* not -1; it is never negative and never above min(W, N).
C13_ActiveCountMatchesSlots ==
    PastStartup =>
        /\ N_activeProc = Cardinality(ActiveSlots)
        /\ N_activeProc >= 0
        /\ N_activeProc <= min(mpiSize - 1, N)

C13_Witness ==
    /\ pcM = "loop"
    /\ mpiSize = 4
    /\ N = 2
    /\ N_activeProc = 1
    /\ proc2inputIdx[1] = -1
    /\ proc2inputIdx[2] = 1

\* The task indices rank 0 has sent so far.
AssignedIdx == {sendLog[j].idx : j \in DOMAIN sendLog} \ {-1}

\* C14: the cursor never decreases and changes only by +1, only in a step
\* that sends the input at the cursor's old value; it stays within 0..N;
\* the indices assigned so far are exactly those below the cursor.
C14_CursorMonotone ==
    /\ [][counter' # counter =>
            /\ counter' = counter + 1
            /\ Len(sendLog') = Len(sendLog) + 1
            /\ sendLog'[Len(sendLog')].idx = counter
            /\ sendLog'[Len(sendLog')].val = input[counter]]_vars
    /\ [][Len(sendLog') # Len(sendLog) /\ sendLog'[Len(sendLog')].idx # -1
            => counter' = counter + 1]_vars
    /\ [](counter \in 0..N)
    /\ [](AssignedIdx = 0..(counter - 1))

C14_Witness ==
    /\ N = 3
    /\ mpiSize = 3
    /\ counter = 3
    /\ pcM = "loop"
    /\ N_activeProc = 2

\* The message start-up sends to rank p, and the mark it leaves in p's slot.
StartupIdx(p) == IF p <= min(mpiSize - 1, N) THEN p - 1 ELSE -1

\* C15: start-up sends exactly one message to every worker before the first
\* receive: with k = min(W, N), rank c+1 is sent the input at index c for
\* c = 0..k-1 and its slot records c, every rank above k is sent the
\* terminate value and its slot is marked -1, and at the end of start-up
\* the cursor and the active count both equal k.
C15_Startup ==
    /\ (mpiSize >= 2 /\ pcM = "startup") =>
          /\ recvLog = <<>>
          /\ Len(sendLog) = k - 1
    /\ (PastStartup /\ recvLog = <<>>) =>
          /\ Len(sendLog) = mpiSize - 1
          /\ counter = min(mpiSize - 1, N)
          /\ N_activeProc = min(mpiSize - 1, N)
    /\ PastStartup =>
          \A p \in Slaves :
              /\ sendLog[p].proc = p
              /\ sendLog[p].idx = StartupIdx(p)
              /\ sendLog[p].val = IF StartupIdx(p) = -1 THEN errValue
                                  ELSE input[StartupIdx(p)]
              /\ recvLog = <<>> => proc2inputIdx[p] = StartupIdx(p)

C15_Witness ==
    /\ pcM = "loop"
    /\ recvLog = <<>>
    /\ mpiSize = 4
    /\ N = 2
    /\ \A p \in Slaves : pcS[p] = "main"

\* C16: past start-up the j-th result rank 0 receives is answered by the
\* j-th send after the start-up batch, addressed to the sender of that
\* result whatever its rank: the input at index min(W, N) + j - 1 while that
\* index is below N, the terminate value once the cursor has reached N.
C16_ArrivalOrderDispatch ==
    PastStartup =>
        /\ Len(sendLog) = (mpiSize - 1) + Len(recvLog)
        /\ \A j \in DOMAIN recvLog :
              LET ans  == sendLog[(mpiSize - 1) + j]
                  next == min(mpiSize - 1, N) + j - 1
              IN /\ ans.proc = recvLog[j].proc
                 /\ ans.idx = IF next < N THEN next ELSE -1
                 /\ ans.val = IF next < N THEN input[next] ELSE errValue

C16_Witness ==
    /\ mpiSize = 3
    /\ N = 3
    /\ Len(recvLog) = 3
    /\ recvLog[1].proc = 2
    /\ sendLog[3].idx = 2
    /\ sendLog[3].proc = 2
    /\ sendLog[4].idx = -1

\* The tasks rank 0 sent to rank p.
TasksTo(p) == {j \in DOMAIN sendLog :
                 sendLog[j].proc = p /\ sendLog[j].idx # -1}

\* The tasks on their way to rank p.
TasksQueued(p) ==
    {i \in DOMAIN toSlave[p] : toSlave[p][i] # errValue}

\* C17: a worker leaves its loop exactly when the value it has just
\* received is negative, and goes on to compute otherwise; it sends one
\* result per task it received, so the results it has sent are as many as
\* the tasks it has taken in and finished; every input value lies in 0..10,
\* so no task is sent as a negative value and no worker has finished while
\* a task sent to it is unanswered.
C17_TerminateOnlyOnSentinel ==
    /\ [][\A p \in Slaves :
            (pcS[p] = "recv" /\ pcS'[p] # "recv") =>
               /\ toSlave[p] # <<>>
               /\ pcS'[p] = IF Head(toSlave[p]) < 0
                            THEN "finished" ELSE "compute"
               /\ x'[p] = Head(toSlave[p])]_vars
    /\ [][\A p \in Slaves :
            (pcS[p] # "finished" /\ pcS'[p] = "finished") =>
               pcS[p] = "recv"]_vars
    /\ [][\A p \in Slaves :
            (pcS[p] = "compute" /\ pcS'[p] # "compute") =>
               /\ pcS'[p] = "recv"
               /\ toMaster'[p] = Append(toMaster[p], func_expensive(x[p]))]_vars
    /\ [](\A i \in DOMAIN input : input[i] \in DistLo..DistHi)
    /\ [](\A j \in DOMAIN sendLog :
            sendLog[j].idx # -1 => sendLog[j].val >= 0)
    /\ [](\A p \in Slaves :
            /\ Cardinality(TasksTo(p)) =
                  Cardinality(TasksQueued(p)) + Len(file[p])
                  + (IF pcS[p] = "compute" THEN 1 ELSE 0)
            /\ pcS[p] = "finished" =>
                  /\ x[p] < 0
                  /\ Outstanding(p) = 0
                  /\ Cardinality(TasksTo(p)) = Len(file[p]))

C17_Witness ==
    /\ mpiSize = 3
    /\ N = 3
    /\ pcS[1] = "finished"
    /\ Len(file[1]) = 2
    /\ file[1][2][1] = 0

\* C18: each worker is sent the terminate value at most once and, once the
\* loop has exited, exactly once; it is the last message sent to it; once
\* a slot holds -1 nothing is on its way to or from that worker but the
\* terminate value and rank 0 sends it nothing more; and rank 0 never
\* records a result through a slot holding -1.
C18_TerminateIsLast ==
    /\ \A p \in Slaves :
          /\ Cardinality(TermsTo(p)) <= 1
          /\ \A j \in TermsTo(p) : \A i \in DOMAIN sendLog :
                 sendLog[i].proc = p => i <= j
          /\ (PastStartup /\ proc2inputIdx[p] = -1) =>
                 /\ Cardinality(TermsTo(p)) = 1
                 /\ pcS[p] # "compute"
                 /\ toMaster[p] = <<>>
                 /\ Outstanding(p) = 0
                 /\ toSlave[p] \in {<<>>, <<errValue>>}
          /\ LoopExited => Cardinality(TermsTo(p)) = 1
    /\ \A j \in DOMAIN recvLog :
          /\ recvLog[j].idx \in Idx
          /\ recvLog[j].proc \in Slaves
    /\ pcM # "aborted"

C18_Witness ==
    /\ mpiSize = 4
    /\ N = 3
    /\ pcM = "loop"
    /\ proc2inputIdx[2] = -1
    /\ pcS[2] = "finished"
    /\ N_activeProc = 2

\* This step is one iteration of the main loop of rank 0.
LoopIteration == Len(recvLog') = Len(recvLog) + 1

\* This step is a step of a slave rank.
SlaveStep == pcS' # pcS

\* C19: the state of rank 0 changes only in steps of rank 0.  An iteration
\* of the main loop that handles a result of rank p changes the slot of p
\* and no other slot, stores the value at the index p's slot held and
\* changes no other output entry, and either advances the cursor by one or
\* takes one off the active count, never both.  A step of a slave leaves
\* the cursor, the active count, the slot table and the output as they are.
C19_Frame ==
    /\ [][LoopIteration =>
            LET p   == recvLog'[Len(recvLog')].proc
                idx == proc2inputIdx[p]
            IN /\ \A q \in Ranks \ {p} :
                     proc2inputIdx'[q] = proc2inputIdx[q]
               /\ proc2inputIdx'[p] # proc2inputIdx[p]
               /\ \A i \in Idx \ {idx} : output'[i] = output[i]
               /\ output'[idx] = recvLog'[Len(recvLog')].val
               /\ \/ counter' = counter + 1 /\ N_activeProc' = N_activeProc
                  \/ counter' = counter /\ N_activeProc' = N_activeProc - 1
               /\ UNCHANGED <<input, k, errs, report, pcS, x, file>>]_vars
    /\ [][SlaveStep =>
            UNCHANGED <<counter, N_activeProc, proc2inputIdx, output,
                        inputIdx2proc, input, pcM, k, errs, report,
                        sendLog, recvLog>>]_vars
    /\ [][masterVars' # masterVars => ~SlaveStep /\ x' = x]_vars

C19_Witness ==
    /\ mpiSize = 3
    /\ N = 3
    /\ Len(recvLog) = 1
    /\ recvLog[1].proc = 2
    /\ proc2inputIdx[1] = 0
    /\ proc2inputIdx[2] = 2
    /\ output[1] = func_cheap(input[1])
    /\ output[0] = 0
    /\ pcS[1] = "compute"

\* ---- Quadrature::trapezoidal ----
\* Doubles are kept exact: a point x is held as x * (n + 1), the running
\* result as twice its value, the returned value as 2 * (n + 1) times its
\* value.  obj.func is any function of the point.

\* x = a + k * dx with dx = (b - a) / (n + 1), times n + 1.
TrapPoint(a, b, n, j) == a * (n + 1) + j * (b - a)

\* The points a call can evaluate.
TrapPoints(a, b, n) == {TrapPoint(a, b, n, j) : j \in 0..(n + 1)}

\* The test that picks the samples added with factor 0.5.
TrapHalf(j, n) == j = 0 \/ j = n

\* Twice the factor sample j is added with.
TrapWeight2(j, n) == IF TrapHalf(j, n) THEN 1 ELSE 2

\* The arguments of a call and what obj.func returns.
TrapInputs ==
    UNION {[pc : {"call"}, a : {a}, b : {b}, n : {n},
            func : [TrapPoints(a, b, n) -> 0..MaxTrapY]] :
              <<a, b, n>> \in (0..MaxTrapX) \X (0..MaxTrapX) \X (0..MaxTrapN)}

\* Entry: result = 0, x = a, dx = (b - a) / (n + 1), k = 0.
TrapCall ==
    /\ trap.pc = "call"
    /\ trap' = [pc |-> "loop", a |-> trap.a, b |-> trap.b, n |-> trap.n,
                func |-> trap.func, k |-> 0, result2 |-> 0,
                pts |-> <<>>, wts |-> <<>>]
    /\ UNCHANGED <<mpiSize, N, masterVars, pcS, x, file, toSlave, toMaster,
                   sendLog, recvLog>>

\* One iteration of the for loop.
TrapIter ==
    /\ trap.pc = "loop"
    /\ trap.k <= trap.n + 1
    /\ LET xk == TrapPoint(trap.a, trap.b, trap.n, trap.k)
           y  == trap.func[xk]
           w  == TrapWeight2(trap.k, trap.n)
       IN trap' = [trap EXCEPT !.result2 = @ + w * y,
                               !.pts = Append(@, xk),
                               !.wts = Append(@, w),
                               !.k = @ + 1]
    /\ UNCHANGED <<mpiSize, N, masterVars, pcS, x, file, toSlave, toMaster,
                   sendLog, recvLog>>

\* Loop exit: result *= dx; return result.
TrapReturn ==
    /\ trap.pc = "loop"
    /\ ~(trap.k <= trap.n + 1)
    /\ trap' = [pc |-> "done", a |-> trap.a, b |-> trap.b, n |-> trap.n,
                func |-> trap.func, pts |-> trap.pts, wts |-> trap.wts,
                ret |-> trap.result2 * (trap.b - trap.a)]
    /\ UNCHANGED <<mpiSize, N, masterVars, pcS, x, file, toSlave, toMaster,
                   sendLog, recvLog>>

InitTrap ==
    /\ ProgInit
    /\ mpiSize = 1
    /\ N = 0
    /\ trap \in TrapInputs

NextTrap == TrapCall \/ TrapIter \/ TrapReturn

SpecTrap == InitTrap /\ [][NextTrap]_vars

\* Twice the weighted sum of the composite trapezoidal rule over the samples
\* j..n+1: the two end samples count 1/2, the inner ones 1.
RECURSIVE RuleSum2(_, _)
RuleSum2(t, j) ==
    IF j > t.n + 1 THEN 0
    ELSE (IF j = 0 \/ j = t.n + 1 THEN 1 ELSE 2)
            * t.func[TrapPoint(t.a, t.b, t.n, j)]
         + RuleSum2(t, j + 1)

\* C20: for every n >= 0 a call evaluates obj.func at the n+2 points
\* a + k*(b-a)/(n+1), k = 0..n+1, in order, adds exactly the samples k = 0
\* and k = n+1 with weight 1/2 and every sample k = 1..n with weight 1, and
\* returns the step width times that sum.
C20_TrapezoidalRule ==
    trap.pc = "done" =>
        /\ trap.pts = [j \in 1..(trap.n + 2) |->
                          TrapPoint(trap.a, trap.b, trap.n, j - 1)]
        /\ trap.wts = [j \in 1..(trap.n + 2) |->
                          IF j = 1 \/ j = trap.n + 2 THEN 1 ELSE 2]
        /\ trap.ret = (trap.b - trap.a) * RuleSum2(trap, 0)

====
